---------------------------- MODULE Spec2Model ----------------------------
(***************************************************************************)
(* The tool-calling agent loop of chat/agents/base.py: Agent.stream_run,   *)
(* Agent.execute_tool and Agent.add_message, as a state machine whose      *)
(* steps are the stretches of the generator between two yields (and the    *)
(* model request).  Text is a sequence of tokens, so that concatenation,   *)
(* "begins with" and JSON parsing are computed, not assumed.               *)
(*                                                                         *)
(* Spec is one invocation of stream_run; SpecClosed is Spec with streams   *)
(* that may be closed early; SpecReassembly is one turn fed with tool-call *)
(* fragments; SpecSessions is Agent.from_session_id over the ChatSession   *)
(* and Message tables, with logins, logouts and deletions of accounts;     *)
(* SpecLogin is the login signal over the ChatSession and CaseInfo tables; *)
(* SpecAgents is several Agent instances in the memory of one process.     *)
(***************************************************************************)
EXTENDS Integers, Sequences, FiniteSets, TLC

\* ------------------------------------------------------------------ bounds

\* Chunks the transport delivers over one stream_run invocation, at most.
MaxChunks == 2

\* Model requests explored in one invocation, at most (the loop itself is
\* bounded by max_steps only).
MaxRequests == 2

\* Tool-call fragments delivered in the one turn of SpecReassembly, at most.
MaxFragments == 3

\* Browsers' Django session keys handed out, at most.
MaxKeys == 2

\* ChatSession rows created, at most.
MaxSessions == 1

\* Calls of Agent.from_session_id explored, at most.
MaxLoads == 2

\* CaseInfo rows created, at most.
MaxCases == 2

\* Agent instances constructed in one process, at most.
MaxAgents == 2

\* Messages in the list of an agent, at most.
MaxHistory == 2

\* ------------------------------------------------------- program constants

default_max_steps == 30

\* Python's None, where the code distinguishes it from the empty string.
None == "<None>"

\* Agent.default_messages of a subclass: one system message.
default_messages == << [role |-> "system", content |-> <<"You are a helpful assistant.">>] >>

\* Agent.tools: the registered tool names, a tool with a required parameter
\* (weather.py) and one without (document_extraction.py).
tools == {"WeatherTool", "CourtInfo"}

\* ------------------------------------------------------------------- JSON

LBRACE == "{"
RBRACE == "}"
LBRACK == "["
RBRACK == "]"
LocationPair == "\"location\":\"Austin\""
ExtraPair == "\"units\":\"F\""
PairTokens == {LocationPair, ExtraPair}

\* The value json.loads gives for no text at all in a fallback: {}.
EmptyDict == [kind |-> "dict", pairs |-> {}]

\* A parser that reads no text at all as the empty object.
JsonLoadsEmptyAsObject(text) ==
    IF text = <<>> \/ text = <<LBRACE, RBRACE>>
    THEN [ok |-> TRUE, value |-> EmptyDict]
    ELSE [ok |-> FALSE, error |-> <<"Expecting value">>]

\* json.loads on a token text: an object (its pairs), a list, or a
\* JSONDecodeError.  The empty text does not parse.
JsonLoads(text) ==
    IF /\ Len(text) >= 2
       /\ text[1] = LBRACE
       /\ text[Len(text)] = RBRACE
       /\ Len(text) <= 3
       /\ \A i \in 2..(Len(text) - 1) : text[i] \in PairTokens
    THEN [ok |-> TRUE, value |-> [kind |-> "dict",
                                  pairs |-> {text[i] : i \in 2..(Len(text) - 1)}]]
    ELSE IF text = <<LBRACK, RBRACK>>
    THEN [ok |-> TRUE, value |-> [kind |-> "list"]]
    ELSE [ok |-> FALSE, error |-> <<"Expecting value">>]

\* ---------------------------------------------------------------- history

VARIABLES
    session,       \* whether the agent has a ChatSession (self.session)
    max_steps_arg, \* the max_steps argument given to the constructor
    max_steps,     \* self.max_steps
    messages,      \* self.messages
    stored,        \* the session's Message rows, in creation order
    pc,            \* where the generator stands
    step,          \* iterations of `for _ in range(self.max_steps)` finished
    requests,      \* calls of litellm.completion made by this invocation
    nchunks,       \* chunks delivered by the transport in this invocation
    full_content,  \* the turn's accumulated text pieces
    tool_calls,    \* the turn's reassembled tool calls
    idx,           \* position in tool_calls of the call being handled
    events,        \* every event yielded, in order
    invoked,       \* tool bodies run: tool name and what the body did
    input,         \* the `messages` argument of stream_run
    sent,          \* the `messages` of every litellm.completion call, in order
    event_turn,    \* for every event, the model request it was yielded under
    fragments,     \* the delta.tool_calls entries received in this turn
    closed_early,  \* a stream of this invocation was closed before its end
    users,         \* the user accounts that exist
    clients,       \* per browser: the user it is logged in as, its session key
    next_key,      \* Django session keys handed out so far
    chat_sessions, \* the ChatSession rows, by id: user and session_key
    rows,          \* the Message rows of each ChatSession, as last written
                   \* by another agent than the current one
    agent_session, \* id of the ChatSession of the current agent (0: none)
    loads,         \* calls of Agent.from_session_id made
    last_load,     \* the last call of Agent.from_session_id: who asked for
                   \* which session, and what the call did
    case_infos,    \* the CaseInfo rows ever made, by id: user, session_key,
                   \* data, and whether the row was deleted since
    lists,         \* the list objects of the process, by address: the
                   \* class-level default_messages, a list of the caller,
                   \* and the self.messages of every agent constructed
    dicts,         \* the dict objects of the process, by address: the state
                   \* arguments of the callers and the self.state of agents
    agents         \* the Agent instances: the addresses of their messages
                   \* and state, and their tools

vars == <<session, max_steps_arg, max_steps, messages, stored, pc, step,
          requests, nchunks, full_content, tool_calls, idx, events, invoked,
          input, sent, event_turn, fragments, closed_early, users, clients,
          next_key, chat_sessions, rows, agent_session, loads, last_load,
          case_infos, lists, dicts, agents>>

\* The objects in memory.
heapVars == <<lists, dicts, agents>>

\* The accounts, the browsers and the tables: what stream_run leaves alone
\* (it writes the current agent's rows, which are `stored`).
dbVars == <<users, clients, next_key, chat_sessions, rows, agent_session,
            loads, last_load, case_infos, heapVars>>


\* ------------------------------------------------------- transport chunks

\* One entry of delta.tool_calls.  An absent id, name or argument chunk is
\* the empty text (None and "" are both falsy to the code).
Delta(index, id, name, arguments) ==
    [index |-> index, id |-> id, has_function |-> TRUE,
     name |-> name, arguments |-> arguments]

DeltaIdOnly(index, id) ==
    [index |-> index, id |-> id, has_function |-> FALSE,
     name |-> "", arguments |-> <<>>]

\* One streamed chunk: chunk.choices[0].delta with its content and tool_calls.
Chunk(content, deltas) == [content |-> content, tool_calls |-> deltas]

\* The chunks the transport may deliver, in any order and number.
Chunks ==
    { Chunk(<<"Hello">>, <<>>),
      Chunk(<<>>, << Delta(0, "call_1", "WeatherTool", <<LBRACE>>) >>),
      Chunk(<<>>, << Delta(0, "", "", <<LocationPair>>) >>),
      Chunk(<<>>, << Delta(0, "", "", <<RBRACE>>) >>),
      Chunk(<<>>, << Delta(0, "call_1", "WeatherTool",
                           <<LBRACE, LocationPair, RBRACE>>) >>),
      Chunk(<<>>, << Delta(0, "", "WeatherTool", <<LBRACK, RBRACK>>) >>),
      Chunk(<<>>, << DeltaIdOnly(0, "call_2") >>),
      Chunk(<<>>, << Delta(0, "call_3", "CourtInfo", <<>>) >>),
      Chunk(<<"Checking">>, << Delta(1, "call_1", "Nope", <<LBRACE, RBRACE>>),
                               Delta(1, "", "", <<>>) >>) }

\* The tool-call fragments a chunk may carry in SpecReassembly: for call 0,
\* every mix of an id, a name and one of three argument chunks, an id alone
\* and a name alone; for call 1, a first fragment, a last one and an id alone.
ArgumentChunks == {<<LBRACE>>, <<LocationPair>>, <<RBRACE>>}

Fragments ==
    { Delta(0, id, name, arguments) :
         id \in {"", "call_1"}, name \in {"", "WeatherTool"},
         arguments \in ArgumentChunks }
    \cup { DeltaIdOnly(0, "call_2"), Delta(0, "", "Nope", <<>>),
           Delta(1, "call_2", "Nope", <<LBRACE>>), Delta(1, "", "", <<RBRACE>>),
           DeltaIdOnly(1, "call_1") }

\* What the caller passes as `messages` to stream_run.
Inputs ==
    { [kind |-> "none"],
      [kind |-> "str", text |-> <<"weather in Austin">>],
      [kind |-> "list",
       list |-> << [role |-> "user", content |-> <<"first">>],
                   [role |-> "user", content |-> <<"second">>] >>] }

\* What a tool body does once constructed: it returns None, a string, a
\* ToolOutput without data, with empty data or with data, or it raises.
ToolOutcomes ==
    {"none", "str", "output", "output_empty", "output_data", "raise"}

\* --------------------------------------------------- tool-call reassembly

NewToolCall ==
    [id |-> None, type |-> "function",
     function |-> [name |-> "", arguments |-> <<>>]]

\* `while tc.index >= len(tool_calls): tool_calls.append({...})`
Extend(tcs, index) ==
    IF index >= Len(tcs)
    THEN tcs \o [i \in 1..(index + 1 - Len(tcs)) |-> NewToolCall]
    ELSE tcs

\* An update that keeps only the newest argument chunk.
UpdateToolCallOverwrites(call, tc) ==
    LET withId == IF tc.id # "" THEN [call EXCEPT !.id = tc.id] ELSE call
        withName == IF tc.has_function /\ tc.name # ""
                    THEN [withId EXCEPT !.function.name = tc.name]
                    ELSE withId
    IN  IF tc.has_function /\ tc.arguments # <<>>
        THEN [withName EXCEPT !.function.arguments = tc.arguments]
        ELSE withName

\* The update of tool_calls[tc.index] by one delta entry.
UpdateToolCall(call, tc) ==
    LET withId == IF tc.id # "" THEN [call EXCEPT !.id = tc.id] ELSE call
        withName == IF tc.has_function /\ tc.name # ""
                    THEN [withId EXCEPT !.function.name = tc.name]
                    ELSE withId
    IN  IF tc.has_function /\ tc.arguments # <<>>
        THEN [withName EXCEPT !.function.arguments = @ \o tc.arguments]
        ELSE withName

\* A pass that gives each new index the next free position of the list.
RECURSIVE AccumulateCompact(_, _, _)
AccumulateCompact(tcs, deltas, k) ==
    IF k > Len(deltas)
    THEN tcs
    ELSE LET tc == deltas[k]
             at == IF tc.index >= Len(tcs) THEN Len(tcs) + 1 ELSE tc.index + 1
             ext == IF tc.index >= Len(tcs) THEN Append(tcs, NewToolCall) ELSE tcs
         IN  AccumulateCompact([ext EXCEPT ![at] = UpdateToolCall(@, tc)],
                               deltas, k + 1)

\* One pass of `for tc in delta.tool_calls` over the entries from position k.
RECURSIVE Accumulate(_, _, _)
Accumulate(tcs, deltas, k) ==
    IF k > Len(deltas)
    THEN tcs
    ELSE LET tc == deltas[k]
             ext == Extend(tcs, tc.index)
         IN  Accumulate([ext EXCEPT ![tc.index + 1] = UpdateToolCall(@, tc)],
                        deltas, k + 1)

\* --------------------------------------------------------- tool execution

\* `tool_call.get("id", "") or ""`
IdOrEmpty(id) == IF id = None THEN "" ELSE id

\* tool_class(**tool_args): WeatherTool needs `location`, every field of
\* CourtInfo has a default; extra fields are allowed; anything but a mapping
\* cannot be unpacked.
Construct(tool_name, tool_args) ==
    IF tool_args.kind # "dict"
    THEN [ok |-> FALSE, error |-> <<"argument after ** must be a mapping">>]
    ELSE IF tool_name = "WeatherTool" /\ LocationPair \notin tool_args.pairs
    THEN [ok |-> FALSE, error |-> <<"1 validation error for", tool_name>>]
    ELSE [ok |-> TRUE]

\* `result = tool_instance(self)`: what the tool body returns.  The data of
\* a ToolOutput is None, an empty dict or a dict with an entry.
ToolResult(tool_name, outcome) ==
    CASE outcome = "none"         -> [kind |-> "None"]
      [] outcome = "str"          -> [kind |-> "str",
                                      value |-> <<tool_name, "says", "Austin">>]
      [] outcome = "output"       -> [kind |-> "ToolOutput",
                                      response |-> <<"Location:", "Austin">>,
                                      data |-> None]
      [] outcome = "output_empty" -> [kind |-> "ToolOutput",
                                      response |-> <<"Location:", "Austin">>,
                                      data |-> "{}"]
      [] outcome = "output_data"  -> [kind |-> "ToolOutput",
                                      response |-> <<"Location:", "Austin">>,
                                      data |-> "{temp_f: 72}"]

\* A normalization that turns whatever is not a ToolOutput into text.
NormalizeAsText(result) ==
    CASE result.kind = "None"       -> [response |-> <<"None">>, data |-> None]
      [] result.kind = "str"        -> [response |-> result.value, data |-> None]
      [] result.kind = "ToolOutput" -> [response |-> result.response,
                                        data |-> result.data]

\* The result of the tool body, normalized to a ToolOutput (data None: no data).
Normalize(result) ==
    CASE result.kind = "None"       -> [response |-> <<"Success">>, data |-> None]
      [] result.kind = "str"        -> [response |-> result.value, data |-> None]
      [] result.kind = "ToolOutput" -> [response |-> result.response,
                                        data |-> result.data]

\* `tool_class = self.tools.get(tool_name)`: whether a tool was found.
ResolveAnything(tool_name) == TRUE

Resolve(tool_name) == tool_name \in tools

\* The try block of execute_tool: whether it raised (and what), the
\* ToolOutput it reached otherwise, and whether the tool body ran.
TryTool(tool_call, outcome) ==
    LET tool_name == tool_call.function.name
        parsed == JsonLoads(tool_call.function.arguments)
        Raise(e, ran) == [raised |-> TRUE, error |-> e, ran |-> ran]
    IN  IF ~Resolve(tool_name)
        THEN Raise(<<"Unknown tool:", tool_name>>, FALSE)
        ELSE IF ~parsed.ok
        THEN Raise(parsed.error, FALSE)
        ELSE IF ~Construct(tool_name, parsed.value).ok
        THEN Raise(Construct(tool_name, parsed.value).error, FALSE)
        ELSE IF outcome = "raise"
        THEN Raise(<<"tool failed">>, TRUE)
        ELSE [raised |-> FALSE,
              output |-> Normalize(ToolResult(tool_name, outcome)),
              ran |-> TRUE]

\* A handler that keeps the exception text alone.
ExceptOutputBare(e) == [response |-> e, data |-> None]

\* `except Exception as e: output = ToolOutput(response=f"Error: {e}")`
ExceptOutput(e) == [response |-> <<"Error:">> \o e, data |-> None]

\* A tool message that loses the call's id.
ToolMessageWithoutId(tool_id, tool_name, output) ==
    IF output.data # None
    THEN [role |-> "tool", tool_call_id |-> "", name |-> tool_name,
          content |-> output.response, data |-> output.data]
    ELSE [role |-> "tool", tool_call_id |-> "", name |-> tool_name,
          content |-> output.response]

\* The tool message: data only when the output has some.
ToolMessage(tool_id, tool_name, output) ==
    IF output.data # None
    THEN [role |-> "tool", tool_call_id |-> tool_id, name |-> tool_name,
          content |-> output.response, data |-> output.data]
    ELSE [role |-> "tool", tool_call_id |-> tool_id, name |-> tool_name,
          content |-> output.response]

\* A tool_response event that also carries the text meant for the model.
ToolResponseEventWithText(tool_id, tool_name, output) ==
    IF output.data # None
    THEN [type |-> "tool_response", id |-> tool_id, name |-> tool_name,
          content |-> output.response, data |-> output.data]
    ELSE [type |-> "tool_response", id |-> tool_id, name |-> tool_name,
          content |-> output.response]

\* The tool_response event: id, name, and data only when the output has some.
ToolResponseEvent(tool_id, tool_name, output) ==
    IF output.data # None
    THEN [type |-> "tool_response", id |-> tool_id, name |-> tool_name,
          data |-> output.data]
    ELSE [type |-> "tool_response", id |-> tool_id, name |-> tool_name]

\* Agent.execute_tool: the tool message and the tool_response event.
execute_tool(tool_call, outcome) ==
    LET tool_name == tool_call.function.name
        tool_id == IdOrEmpty(tool_call.id)
        try == TryTool(tool_call, outcome)
        output == IF try.raised THEN ExceptOutput(try.error) ELSE try.output
    IN  [tool_msg |-> ToolMessage(tool_id, tool_name, output),
         response_event |-> ToolResponseEvent(tool_id, tool_name, output),
         ran |-> try.ran]

\* An announcement that passes the failure on instead of {}.
ToolCallEventWithoutFallback(tool_call) ==
    LET parsed == JsonLoads(tool_call.function.arguments)
    IN  [type |-> "tool_call",
         id |-> IdOrEmpty(tool_call.id),
         name |-> tool_call.function.name,
         args |-> IF parsed.ok THEN parsed.value ELSE [kind |-> "null"]]

\* The tool_call event announcing tool_call.
ToolCallEvent(tool_call) ==
    LET parsed == JsonLoads(tool_call.function.arguments)
    IN  [type |-> "tool_call",
         id |-> IdOrEmpty(tool_call.id),
         name |-> tool_call.function.name,
         args |-> IF parsed.ok THEN parsed.value ELSE EmptyDict]


\* ------------------------------------------------------------ the agent

\* `self.max_steps = max_steps or self.default_max_steps`
InitMaxSteps(arg) == IF arg = 0 THEN default_max_steps ELSE arg

\* A projection that keeps role, content and the tool fields only.
messages_for_llm_stripped(msgs) ==
    [i \in 1..Len(msgs) |->
        [k \in DOMAIN msgs[i] \ {"data", "tool_calls"} |-> msgs[i][k]]]

\* The `dict(msg)` copy of every message, tool messages included.
messages_for_llm_copy(msgs) == msgs

\* Agent.messages_for_llm over self.messages: a tool message that has a data
\* field is copied without it, every other message is copied whole.
messages_for_llm(msgs) ==
    [i \in 1..Len(msgs) |->
        IF msgs[i].role = "tool" /\ "data" \in DOMAIN msgs[i]
        THEN [k \in DOMAIN msgs[i] \ {"data"} |-> msgs[i][k]]
        ELSE msgs[i]]

\* An add_message that puts the message in front of the history.
add_message_in_front(agent, message, fails) ==
    [messages |-> <<message>> \o agent.messages,
     stored |-> IF session /\ ~fails
                THEN <<message>> \o agent.stored
                ELSE agent.stored]

\* An add_message that appends and never creates the row.
add_message_unsaved(agent, message, fails) ==
    [messages |-> Append(agent.messages, message), stored |-> agent.stored]

\* Agent.add_message on the pair (self.messages, the session's rows): the
\* message is appended first, then the row is created when there is a
\* session; `fails` says that creating the row raised.
add_message(agent, message, fails) ==
    [messages |-> Append(agent.messages, message),
     stored |-> IF session /\ ~fails
                THEN Append(agent.stored, message)
                ELSE agent.stored]

\* The messages stream_run adds for its argument, in order.
InputMessages(in) ==
    CASE in.kind = "none" -> <<>>
      [] in.kind = "str"  -> << [role |-> "user", content |-> in.text] >>
      [] in.kind = "list" -> in.list

\* add_message over msgs[k..]; the failAt-th one fails (0: none does), and
\* nothing after it is added.
RECURSIVE AddAll(_, _, _, _)
AddAll(agent, msgs, k, failAt) ==
    IF k > Len(msgs)
    THEN agent
    ELSE IF k = failAt
    THEN add_message(agent, msgs[k], TRUE)
    ELSE AddAll(add_message(agent, msgs[k], FALSE), msgs, k + 1, failAt)

\* `"".join(full_content)`
RECURSIVE Join(_)
Join(pieces) == IF pieces = <<>> THEN <<>> ELSE Head(pieces) \o Join(Tail(pieces))

\* An assistant message that always has a tool_calls field.
AssistantMessageWithCalls(content, calls) ==
    [role |-> "assistant", content |-> Join(content), tool_calls |-> calls]

\* The assistant message built at the end of a turn.
AssistantMessage(content, calls) ==
    IF calls # <<>>
    THEN [role |-> "assistant", content |-> Join(content), tool_calls |-> calls]
    ELSE [role |-> "assistant", content |-> Join(content)]

\* A failure passed on to the client as text of the answer.
ErrorEventAsContent(e) == [type |-> "content_delta", content |-> e]

DoneEvent == [type |-> "done"]
ErrorEvent(e) == [type |-> "error", error |-> e]
ContentDeltaEvent(content) == [type |-> "content_delta", content |-> content]

\* `yield event` for each of evs, under model request number turn.
Emit(evs, turn) ==
    /\ events' = events \o evs
    /\ event_turn' = event_turn \o [i \in 1..Len(evs) |-> turn]

\* The model request under way: at the top of the loop it is the one being
\* made, afterwards the last one made.
CurrentTurn == IF pc = "request" THEN requests + 1 ELSE requests

\* A handler that goes on to the done event after the error event.
HandleExceptionThenDone(e) ==
    /\ Emit(<<ErrorEvent(e), DoneEvent>>, CurrentTurn)
    /\ pc' = "done"

\* `except Exception as e: yield error_event`
HandleException(e) ==
    /\ Emit(<<ErrorEvent(e)>>, CurrentTurn)
    /\ pc' = "error"

\* ------------------------------------------------- accounts and sessions

\* The accounts there are at the start, and the browsers that send requests.
Users == {"alice", "bob"}
Clients == {"c1", "c2"}

\* The case information a browser can save.
CaseData == {"eviction", "small claims"}

\* The n-th Django session key handed out.
Key(n) == "k" \o ToString(n)

\* No call of Agent.from_session_id was made yet.  A session_id of 0 stands
\* for the argument left out (ChatSession ids are 1, 2, ...).
NoResult == [client |-> None, session_id |-> 0, outcome |-> "none"]

\* The memory of a process in which no second Agent is looked at.
NoAgents ==
    /\ lists = <<>>
    /\ dicts = <<>>
    /\ agents = <<>>

\* Every account exists, no browser has a Django session or is logged in,
\* and there is no ChatSession.
EmptyDatabase ==
    /\ users = Users
    /\ clients = [c \in Clients |-> [user |-> None, session_key |-> None]]
    /\ next_key = 0
    /\ chat_sessions = <<>>
    /\ rows = <<>>
    /\ agent_session = 0
    /\ loads = 0
    /\ last_load = NoResult
    /\ case_infos = <<>>
    /\ NoAgents

\* The database after one anonymous browser has had a ChatSession made by
\* Agent.from_session_id: the session of the agent under analysis.
OneSessionDatabase ==
    /\ users = Users
    /\ clients = [c \in Clients |->
                    [user |-> None,
                     session_key |-> IF c = "c1" THEN Key(1) ELSE None]]
    /\ next_key = 1
    /\ chat_sessions = << [user |-> None, session_key |-> Key(1)] >>
    /\ rows = << default_messages >>
    /\ agent_session = 1
    /\ loads = 1
    /\ last_load = [client |-> "c1", session_id |-> 0, outcome |-> "agent"]
    /\ case_infos = <<>>
    /\ NoAgents

\* The Message rows of every ChatSession: those of the current agent's
\* session are `stored`.
Saved ==
    IF agent_session = 0 THEN rows ELSE [rows EXCEPT ![agent_session] = stored]

\* The Message table of ChatSession id: each row with its created_at.
MessageRows(id) ==
    {[created_at |-> i, data |-> Saved[id][i]] : i \in 1..Len(Saved[id])}

\* `.order_by("-created_at")`: the newest row first.
RECURSIVE order_by_created_at_descending(_)
order_by_created_at_descending(table) ==
    IF table = {}
    THEN <<>>
    ELSE LET first == CHOOSE r \in table :
                         \A q \in table : r.created_at >= q.created_at
         IN  <<first>> \o order_by_created_at_descending(table \ {first})

\* `session.messages.order_by("created_at")`
RECURSIVE order_by_created_at(_)
order_by_created_at(table) ==
    IF table = {}
    THEN <<>>
    ELSE LET first == CHOOSE r \in table :
                         \A q \in table : r.created_at <= q.created_at
         IN  <<first>> \o order_by_created_at(table \ {first})

\* `[m.data for m in session.messages.order_by("created_at")]`
LoadMessages(id) ==
    LET ordered == order_by_created_at(MessageRows(id))
    IN  [i \in 1..Len(ordered) |-> ordered[i].data]

\* request.session.session_key after
\* `if not request.session.session_key: request.session.create()`.
SessionKeyOf(c) ==
    IF clients[c].session_key = None
    THEN Key(next_key + 1)
    ELSE clients[c].session_key

\* `user = request.user if request.user.is_authenticated else None`
RequestUser(c) == clients[c].user

\* `session_key = request.session.session_key if not user else ""`
RequestKey(c) == IF RequestUser(c) = None THEN SessionKeyOf(c) ELSE ""

\* The ownership check of from_session_id: whether it lets the request pass.
VerifyOwnership(chat_session, user, session_key) ==
    IF chat_session.user # None
    THEN chat_session.user = user
    ELSE chat_session.session_key = session_key

\* What from_session_id does for browser c and an existing-or-not id.
Outcome(c, id) ==
    IF id \notin 1..Len(chat_sessions)
    THEN "ValueError"
    ELSE IF VerifyOwnership(chat_sessions[id], RequestUser(c), RequestKey(c))
    THEN "agent"
    ELSE "PermissionError"

\* The agent as constructed: by Agent.from_session_id for a new session (the
\* default messages are its rows), or without a session (no rows).
Init ==
    /\ session \in BOOLEAN
    /\ max_steps_arg \in 0..MaxRequests
    /\ max_steps = InitMaxSteps(max_steps_arg)
    /\ messages = default_messages
    /\ stored = IF session THEN default_messages ELSE <<>>
    /\ pc = "idle"
    /\ step = 0
    /\ requests = 0
    /\ nchunks = 0
    /\ full_content = <<>>
    /\ tool_calls = <<>>
    /\ idx = 0
    /\ events = <<>>
    /\ invoked = <<>>
    /\ input = [kind |-> "none"]
    /\ sent = <<>>
    /\ event_turn = <<>>
    /\ fragments = <<>>
    /\ closed_early = FALSE
    /\ IF session THEN OneSessionDatabase ELSE EmptyDatabase

\* stream_run is started: the caller's input is added, then the loop begins.
StartRun ==
    /\ pc = "idle"
    /\ \E in \in Inputs :
          LET agent == AddAll([messages |-> messages, stored |-> stored],
                              InputMessages(in), 1, 0)
          IN  /\ input' = in
              /\ messages' = agent.messages
              /\ stored' = agent.stored
    /\ pc' = "request"
    /\ UNCHANGED <<session, max_steps_arg, max_steps, step, requests, nchunks,
                   full_content, tool_calls, idx, events, invoked, sent,
                   event_turn, fragments, closed_early, dbVars>>

\* Adding the caller's input raises: this is before the try block, so the
\* exception leaves the generator.
StartRunFails ==
    /\ pc = "idle"
    /\ session
    /\ \E in \in Inputs :
          \E failAt \in 1..Len(InputMessages(in)) :
             LET agent == AddAll([messages |-> messages, stored |-> stored],
                                 InputMessages(in), 1, failAt)
             IN  /\ input' = in
                 /\ messages' = agent.messages
                 /\ stored' = agent.stored
    /\ pc' = "raised"
    /\ UNCHANGED <<session, max_steps_arg, max_steps, step, requests, nchunks,
                   full_content, tool_calls, idx, events, invoked, sent,
                   event_turn, fragments, closed_early, dbVars>>

\* A request that sends again what the first request of the invocation sent.
RequestModelStale ==
    /\ pc = "request"
    /\ step < max_steps
    /\ requests < MaxRequests
    /\ requests' = requests + 1
    /\ sent' = Append(sent, IF sent = <<>>
                           THEN messages_for_llm(messages)
                           ELSE sent[1])
    /\ full_content' = <<>>
    /\ tool_calls' = <<>>
    /\ fragments' = <<>>
    /\ pc' = "stream"
    /\ UNCHANGED <<session, max_steps_arg, max_steps, messages, stored, step,
                   nchunks, idx, events, invoked, input, event_turn, closed_early,
                   dbVars>>

\* The top of `for _ in range(self.max_steps)` with steps left:
\* litellm.completion is called and the stream opens.
RequestModel ==
    /\ pc = "request"
    /\ step < max_steps
    /\ requests < MaxRequests
    /\ requests' = requests + 1
    /\ sent' = Append(sent, messages_for_llm(messages))
    /\ full_content' = <<>>
    /\ tool_calls' = <<>>
    /\ fragments' = <<>>
    /\ pc' = "stream"
    /\ UNCHANGED <<session, max_steps_arg, max_steps, messages, stored, step,
                   nchunks, idx, events, invoked, input, event_turn, closed_early,
                   dbVars>>

\* litellm.completion raises when called.
RequestFails ==
    /\ pc = "request"
    /\ step < max_steps
    /\ requests < MaxRequests
    /\ requests' = requests + 1
    /\ sent' = Append(sent, messages_for_llm(messages))
    /\ HandleException(<<"connection refused">>)
    /\ UNCHANGED <<session, max_steps_arg, max_steps, messages, stored, step,
                   nchunks, full_content, tool_calls, idx, invoked, input,
                   fragments, closed_early, dbVars>>

\* range(self.max_steps) is used up: the loop ends and done is yielded.
BudgetExhausted ==
    /\ pc = "request"
    /\ step >= max_steps
    /\ Emit(<<DoneEvent>>, requests)
    /\ pc' = "done"
    /\ UNCHANGED <<session, max_steps_arg, max_steps, messages, stored, step,
                   requests, nchunks, full_content, tool_calls, idx, invoked,
                   input, sent, fragments, closed_early, dbVars>>

\* The body of `for chunk in response` for one chunk: its content is
\* yielded, its tool-call entries are merged into tool_calls.
Receive(chunk) ==
    /\ IF chunk.content # <<>>
       THEN /\ full_content' = Append(full_content, chunk.content)
            /\ Emit(<<ContentDeltaEvent(chunk.content)>>, requests)
       ELSE UNCHANGED <<full_content, events, event_turn>>
    /\ tool_calls' = Accumulate(tool_calls, chunk.tool_calls, 1)
    /\ fragments' = fragments \o chunk.tool_calls
    /\ nchunks' = nchunks + 1
    /\ UNCHANGED <<session, max_steps_arg, max_steps, messages, stored, pc,
                   step, requests, idx, invoked, input, sent, closed_early,
                   dbVars>>

\* One chunk of the stream arrives.
ReceiveChunk ==
    /\ pc = "stream"
    /\ nchunks < MaxChunks
    /\ \E chunk \in Chunks : Receive(chunk)

\* One chunk arrives that carries a single tool-call fragment.
ReceiveFragment ==
    /\ pc = "stream"
    /\ nchunks < MaxFragments
    /\ \E tc \in Fragments : Receive(Chunk(<<>>, <<tc>>))

\* A stream failure that keeps what the turn had received as its assistant
\* message.
StreamFailsKeepsPartial ==
    /\ pc = "stream"
    /\ LET agent == add_message([messages |-> messages, stored |-> stored],
                                AssistantMessage(full_content, tool_calls), FALSE)
       IN  /\ messages' = agent.messages
           /\ stored' = agent.stored
    /\ \E e \in {<<"connection reset">>, <<"list index out of range">>} :
          HandleException(e)
    /\ UNCHANGED <<session, max_steps_arg, max_steps, step, requests, nchunks,
                   full_content, tool_calls, idx, invoked, input, sent,
                   fragments, closed_early, dbVars>>

\* The stream raises (the transport fails, or a chunk has no choices).
StreamFails ==
    /\ pc = "stream"
    /\ \E e \in {<<"connection reset">>, <<"list index out of range">>} :
          HandleException(e)
    /\ UNCHANGED <<session, max_steps_arg, max_steps, messages, stored, step,
                   requests, nchunks, full_content, tool_calls, idx, invoked,
                   input, sent, fragments, closed_early, dbVars>>

\* An end of turn that goes round the loop again without tool calls.
EndTurnWithoutBreak ==
    /\ pc = "stream"
    /\ LET agent == add_message([messages |-> messages, stored |-> stored],
                                AssistantMessage(full_content, tool_calls), FALSE)
       IN  /\ messages' = agent.messages
           /\ stored' = agent.stored
    /\ IF tool_calls # <<>>
       THEN /\ idx' = 1
            /\ pc' = "tool_call"
            /\ UNCHANGED step
       ELSE /\ step' = step + 1
            /\ pc' = "request"
            /\ UNCHANGED idx
    /\ UNCHANGED <<session, max_steps_arg, max_steps, requests, nchunks,
                   full_content, tool_calls, invoked, input, events, sent,
                   event_turn, fragments, closed_early, dbVars>>

\* The stream ends: the assistant message is added; with no tool calls the
\* loop breaks and done is yielded, otherwise the tool calls are handled.
EndTurn ==
    /\ pc = "stream"
    /\ LET agent == add_message([messages |-> messages, stored |-> stored],
                                AssistantMessage(full_content, tool_calls), FALSE)
       IN  /\ messages' = agent.messages
           /\ stored' = agent.stored
    /\ IF tool_calls # <<>>
       THEN /\ idx' = 1
            /\ pc' = "tool_call"
            /\ UNCHANGED <<events, event_turn>>
       ELSE /\ Emit(<<DoneEvent>>, requests)
            /\ pc' = "done"
            /\ UNCHANGED idx
    /\ UNCHANGED <<session, max_steps_arg, max_steps, step, requests, nchunks,
                   full_content, tool_calls, invoked, input, sent, fragments,
                   closed_early, dbVars>>

\* The stream is closed before the model has finished the turn and the
\* iterator just stops: `for chunk in response` ends as on a finished turn,
\* so what was received becomes the assistant message.
StreamClosed ==
    /\ pc = "stream"
    /\ closed_early' = TRUE
    /\ LET agent == add_message([messages |-> messages, stored |-> stored],
                                AssistantMessage(full_content, tool_calls), FALSE)
       IN  /\ messages' = agent.messages
           /\ stored' = agent.stored
    /\ IF tool_calls # <<>>
       THEN /\ idx' = 1
            /\ pc' = "tool_call"
            /\ UNCHANGED <<events, event_turn>>
       ELSE /\ Emit(<<DoneEvent>>, requests)
            /\ pc' = "done"
            /\ UNCHANGED idx
    /\ UNCHANGED <<session, max_steps_arg, max_steps, step, requests, nchunks,
                   full_content, tool_calls, invoked, input, sent, fragments,
                   dbVars>>

\* The stream ends and storing the assistant message raises.
EndTurnFails ==
    /\ pc = "stream"
    /\ session
    /\ LET agent == add_message([messages |-> messages, stored |-> stored],
                                AssistantMessage(full_content, tool_calls), TRUE)
       IN  /\ messages' = agent.messages
           /\ stored' = agent.stored
    /\ HandleException(<<"database is locked">>)
    /\ UNCHANGED <<session, max_steps_arg, max_steps, step, requests, nchunks,
                   full_content, tool_calls, idx, invoked, input, sent,
                   fragments, closed_early, dbVars>>

\* Tool calls announced all together before any of them is executed.
AnnounceAllToolCalls ==
    /\ pc = "tool_call"
    /\ Emit(IF idx = 1
            THEN [k \in 1..Len(tool_calls) |-> ToolCallEvent(tool_calls[k])]
            ELSE <<>>, requests)
    /\ pc' = "execute"
    /\ UNCHANGED <<session, max_steps_arg, max_steps, messages, stored, step,
                   requests, nchunks, full_content, tool_calls, idx, invoked,
                   input, sent, fragments, closed_early, dbVars>>

\* The tool_call event of tool_calls[idx] is yielded.
AnnounceToolCall ==
    /\ pc = "tool_call"
    /\ Emit(<<ToolCallEvent(tool_calls[idx])>>, requests)
    /\ pc' = "execute"
    /\ UNCHANGED <<session, max_steps_arg, max_steps, messages, stored, step,
                   requests, nchunks, full_content, tool_calls, idx, invoked,
                   input, sent, fragments, closed_early, dbVars>>

\* A turn that is left after its first tool call.
NextPositionLeavesTurn ==
    /\ step' = step + 1
    /\ pc' = "request"
    /\ UNCHANGED idx

\* After the last tool call of the turn the iteration is over.
NextPosition ==
    IF idx < Len(tool_calls)
    THEN /\ idx' = idx + 1
         /\ pc' = "tool_call"
         /\ UNCHANGED step
    ELSE /\ step' = step + 1
         /\ pc' = "request"
         /\ UNCHANGED idx

\* tool_calls[idx] is executed, its tool message added and its
\* tool_response yielded.
RunTool ==
    /\ pc = "execute"
    /\ \E outcome \in ToolOutcomes :
          LET r == execute_tool(tool_calls[idx], outcome)
              agent == add_message([messages |-> messages, stored |-> stored],
                                   r.tool_msg, FALSE)
          IN  /\ r.ran \/ outcome = "none"
              /\ invoked' = IF r.ran
                            THEN Append(invoked, [name |-> r.tool_msg.name,
                                                  outcome |-> outcome])
                            ELSE invoked
              /\ messages' = agent.messages
              /\ stored' = agent.stored
              /\ Emit(<<r.response_event>>, requests)
    /\ NextPosition
    /\ UNCHANGED <<session, max_steps_arg, max_steps, requests, nchunks,
                   full_content, tool_calls, input, sent, fragments,
                   closed_early, dbVars>>

\* tool_calls[idx] is executed and storing its tool message raises.
RunToolFails ==
    /\ pc = "execute"
    /\ session
    /\ \E outcome \in ToolOutcomes :
          LET r == execute_tool(tool_calls[idx], outcome)
              agent == add_message([messages |-> messages, stored |-> stored],
                                   r.tool_msg, TRUE)
          IN  /\ r.ran \/ outcome = "none"
              /\ invoked' = IF r.ran
                            THEN Append(invoked, [name |-> r.tool_msg.name,
                                                  outcome |-> outcome])
                            ELSE invoked
              /\ messages' = agent.messages
              /\ stored' = agent.stored
    /\ HandleException(<<"database is locked">>)
    /\ UNCHANGED <<session, max_steps_arg, max_steps, step, requests, nchunks,
                   full_content, tool_calls, idx, input, sent, fragments,
                   closed_early, dbVars>>

\* ------------------------------------------- Agent.from_session_id, login

\* The variables of the agent and of its invocation.
agentVars == <<session, max_steps_arg, max_steps, messages, stored, pc, step,
               requests, nchunks, full_content, tool_calls, idx, events,
               invoked, input, sent, event_turn, fragments, closed_early>>

\* The first lines of from_session_id: a browser without a Django session
\* gets one.
EnsureSessionKey(c) ==
    /\ clients[c].session_key = None => next_key < MaxKeys
    /\ clients' = [clients EXCEPT ![c].session_key = SessionKeyOf(c)]
    /\ next_key' = IF clients[c].session_key = None
                   THEN next_key + 1 ELSE next_key

\* `cls(session=session, messages=..., **kwargs)`: a new agent for
\* ChatSession id with this history, not yet run.
Construct_Agent(id, history) ==
    /\ session' = TRUE
    /\ agent_session' = id
    /\ max_steps_arg' = 0
    /\ max_steps' = InitMaxSteps(0)
    /\ messages' = history
    /\ pc' = "idle"
    /\ step' = 0
    /\ requests' = 0
    /\ nchunks' = 0
    /\ full_content' = <<>>
    /\ tool_calls' = <<>>
    /\ idx' = 0
    /\ events' = <<>>
    /\ invoked' = <<>>
    /\ input' = [kind |-> "none"]
    /\ sent' = <<>>
    /\ event_turn' = <<>>
    /\ fragments' = <<>>
    /\ closed_early' = FALSE

\* from_session_id without a session id: a ChatSession is created for the
\* request's user or session key, and the agent's default messages are
\* saved as its rows.
NewChat ==
    /\ loads < MaxLoads
    /\ Len(chat_sessions) < MaxSessions
    /\ \E c \in Clients :
          /\ EnsureSessionKey(c)
          /\ chat_sessions' = Append(chat_sessions,
                                     [user |-> RequestUser(c),
                                      session_key |-> RequestKey(c)])
          /\ rows' = Append(Saved, default_messages)
          /\ stored' = default_messages
          /\ Construct_Agent(Len(chat_sessions) + 1, default_messages)
          /\ last_load' = [client |-> c, session_id |-> 0, outcome |-> "agent"]
    /\ loads' = loads + 1
    /\ UNCHANGED <<users, case_infos, heapVars>>

\* from_session_id with a session id, which may be of no ChatSession: the
\* owner gets an agent with the session's messages, anyone else an exception.
OpenChat ==
    /\ loads < MaxLoads
    /\ \E c \in Clients, id \in 1..(Len(chat_sessions) + 1) :
          /\ EnsureSessionKey(c)
          /\ last_load' = [client |-> c, session_id |-> id,
                        outcome |-> Outcome(c, id)]
          /\ IF Outcome(c, id) = "agent"
             THEN /\ rows' = Saved
                  /\ stored' = Saved[id]
                  /\ Construct_Agent(id, LoadMessages(id))
             ELSE UNCHANGED <<rows, agent_session, agentVars>>
    /\ loads' = loads + 1
    /\ UNCHANGED <<users, chat_sessions, case_infos, heapVars>>

\* The CaseInfo rows a query sees.
Live(i) == ~case_infos[i].deleted

\* CaseInfo.objects.filter(session_key=..., user__isnull=True)
AnonymousCases(session_key) ==
    {i \in 1..Len(case_infos) :
        /\ Live(i)
        /\ case_infos[i].session_key = session_key
        /\ case_infos[i].user = None}

\* CaseInfo.objects.filter(user=...)
CasesOf(user) ==
    {i \in 1..Len(case_infos) : Live(i) /\ case_infos[i].user = user}

\* QuerySet.first() under Meta.ordering: a row of the set.  At most one row
\* matches each of the queries made (OneCasePerOwner).
First(ids) == CHOOSE i \in ids : \A j \in ids : i <= j

\* migrate_anonymous_data, the ChatSession part: the anonymous sessions of
\* the key become the user's.
migrate_chat_sessions(session_key, user) ==
    [i \in 1..Len(chat_sessions) |->
        IF /\ chat_sessions[i].session_key = session_key
           /\ chat_sessions[i].user = None
        THEN [user |-> user, session_key |-> ""]
        ELSE chat_sessions[i]]

migrate_case_info_replaces(session_key, user) ==
    IF AnonymousCases(session_key) = {}
    THEN case_infos
    ELSE [i \in 1..Len(case_infos) |->
            IF i = First(AnonymousCases(session_key))
            THEN [case_infos[i] EXCEPT !.user = user, !.session_key = ""]
            ELSE IF i \in CasesOf(user)
                 THEN [case_infos[i] EXCEPT !.deleted = TRUE]
                 ELSE case_infos[i]]

\* migrate_anonymous_data, the CaseInfo part: the anonymous case of the key
\* becomes the user's, unless the user has one: then it is deleted.
migrate_case_info(session_key, user) ==
    IF AnonymousCases(session_key) = {}
    THEN case_infos
    ELSE LET anonymous_case == First(AnonymousCases(session_key))
         IN  IF CasesOf(user) # {}
             THEN [case_infos EXCEPT ![anonymous_case].deleted = TRUE]
             ELSE [case_infos EXCEPT ![anonymous_case].user = user,
                                     ![anonymous_case].session_key = ""]

\* A browser logs in: the middleware has saved the session key the browser
\* had (if any) as _anonymous_session_key, Django gives the browser a new
\* session key, and migrate_anonymous_data hands the anonymous data of the
\* saved key to the user.
Login ==
    /\ next_key < MaxKeys
    /\ \E c \in Clients, u \in users :
          /\ clients[c].user = None
          /\ LET session_key == clients[c].session_key
             IN  IF session_key = None
                 THEN UNCHANGED <<chat_sessions, case_infos>>
                 ELSE /\ chat_sessions' = migrate_chat_sessions(session_key, u)
                      /\ case_infos' = migrate_case_info(session_key, u)
          /\ clients' = [clients EXCEPT
                            ![c] = [user |-> u, session_key |-> Key(next_key + 1)]]
    /\ next_key' = next_key + 1
    /\ UNCHANGED <<users, rows, agent_session, loads, last_load, agentVars,
                   heapVars>>

\* A browser logs out: its Django session is flushed.
Logout ==
    /\ \E c \in Clients :
          /\ clients[c].user # None
          /\ clients' = [clients EXCEPT
                            ![c] = [user |-> None, session_key |-> None]]
    /\ UNCHANGED <<users, next_key, chat_sessions, rows, agent_session, loads,
                   last_load, case_infos, agentVars, heapVars>>

\* _ownership_filter: the rows of the request's user, or of its session key.
Owned(c) ==
    IF RequestUser(c) # None
    THEN CasesOf(RequestUser(c))
    ELSE {i \in 1..Len(case_infos) :
             Live(i) /\ case_infos[i].session_key = RequestKey(c)}

\* case_save: update_or_create of the CaseInfo of the request's owner.
case_save ==
    /\ \E c \in Clients, data \in CaseData :
          /\ EnsureSessionKey(c)
          /\ IF Owned(c) # {}
             THEN case_infos' = [case_infos EXCEPT ![First(Owned(c))].data = data]
             ELSE /\ Len(case_infos) < MaxCases
                  /\ case_infos' = Append(case_infos,
                                          [user |-> RequestUser(c),
                                           session_key |-> RequestKey(c),
                                           data |-> data,
                                           deleted |-> FALSE])
    /\ UNCHANGED <<users, chat_sessions, rows, agent_session, loads,
                   last_load, agentVars, heapVars>>

\* An account is deleted: `on_delete=models.SET_NULL` clears the user of its
\* ChatSessions and CaseInfos, and the browsers logged in as it are
\* anonymous from now on.
DeleteUser ==
    /\ \E u \in users :
          /\ users' = users \ {u}
          /\ chat_sessions' =
                [i \in 1..Len(chat_sessions) |->
                    IF chat_sessions[i].user = u
                    THEN [chat_sessions[i] EXCEPT !.user = None]
                    ELSE chat_sessions[i]]
          /\ clients' = [c \in Clients |->
                            IF clients[c].user = u
                            THEN [clients[c] EXCEPT !.user = None]
                            ELSE clients[c]]
          /\ case_infos' =
                [i \in 1..Len(case_infos) |->
                    IF case_infos[i].user = u
                    THEN [case_infos[i] EXCEPT !.user = None]
                    ELSE case_infos[i]]
    /\ UNCHANGED <<next_key, rows, agent_session, loads, last_load, agentVars,
                   heapVars>>

\* Agent.ping: one completion call with a fixed message of its own; it
\* answers whether the call went through, and reads or writes nothing of
\* the agent but its model name.
ping ==
    /\ \E reachable \in BOOLEAN : TRUE
    /\ UNCHANGED vars

\* ------------------------------------------------- Agent instances in memory

\* Where the class-level default_messages list and the list a caller passes
\* as `messages` stand in `lists`.
DefaultAddress == 1
CallerAddress == 2

\* The list a caller holds and passes to the constructor.
CallerMessages == << [role |-> "user", content |-> <<"earlier">>] >>

\* The `state` argument of the constructor: left out, a dict of the caller
\* without entries, or one with an entry.  A dict is the set of its keys.
StateArguments == {"none", "empty", "filled"}

\* The message an operation appends, the key a tool writes to agent.state.
NewMessage == [role |-> "user", content |-> <<"hello">>]
StateKey == "topic"

\* A constructor that keeps the list it was given.
SetUpMessagesShared(messages_arg) ==
    [lists |-> lists,
     address |-> IF messages_arg # 0 THEN messages_arg ELSE DefaultAddress]

\* `self.messages = list(messages)`, or `list(self.default_messages)` when
\* the argument is None (0): a new list with the same messages.
SetUpMessages(messages_arg) ==
    [lists |-> Append(lists, lists[IF messages_arg # 0
                                   THEN messages_arg ELSE DefaultAddress]),
     address |-> Len(lists) + 1]

\* `self.state = state or {}`: the caller's dict when it has entries, a new
\* dict when it has none or no dict was passed.
SetUpState(state_arg) ==
    CASE state_arg = "none" ->
            [dicts |-> Append(dicts, {}), address |-> Len(dicts) + 1]
      [] state_arg = "empty" ->
            [dicts |-> dicts \o << {}, {} >>, address |-> Len(dicts) + 2]
      [] state_arg = "filled" ->
            [dicts |-> Append(dicts, {"seed"}), address |-> Len(dicts) + 1]

\* Agent.__init__ with or without the caller's list, and with a state
\* argument no other agent was given.
AgentInit ==
    /\ Len(agents) < MaxAgents
    /\ \E messages_arg \in {0, CallerAddress}, state_arg \in StateArguments :
          LET m == SetUpMessages(messages_arg)
              s == SetUpState(state_arg)
          IN  /\ lists' = m.lists
              /\ dicts' = s.dicts
              /\ agents' = Append(agents, [messages |-> m.address,
                                           state |-> s.address,
                                           tools |-> tools])
    /\ UNCHANGED <<agentVars, users, clients, next_key, chat_sessions, rows,
                   agent_session, loads, last_load, case_infos>>

\* add_message on one of the agents (it has no session).
AppendMessage ==
    /\ \E a \in 1..Len(agents) :
          LET address == agents[a].messages
              agent == add_message([messages |-> lists[address],
                                    stored |-> <<>>], NewMessage, FALSE)
          IN  /\ Len(lists[address]) < MaxHistory
              /\ lists' = [lists EXCEPT ![address] = agent.messages]
    /\ UNCHANGED <<agentVars, users, clients, next_key, chat_sessions, rows,
                   agent_session, loads, last_load, case_infos, dicts, agents>>

\* A tool of one of the agents stores data in agent.state.
WriteState ==
    /\ \E a \in 1..Len(agents) :
          /\ StateKey \notin dicts[agents[a].state]
          /\ dicts' = [dicts EXCEPT ![agents[a].state] = @ \cup {StateKey}]
    /\ UNCHANGED <<agentVars, users, clients, next_key, chat_sessions, rows,
                   agent_session, loads, last_load, case_infos, lists, agents>>

\* A process with the class-level list and a caller's list, and no agent yet.
InitAgents ==
    /\ lists = << default_messages, CallerMessages >>
    /\ dicts = <<>>
    /\ agents = <<>>
    /\ users = Users
    /\ clients = [c \in Clients |-> [user |-> None, session_key |-> None]]
    /\ next_key = 0
    /\ chat_sessions = <<>>
    /\ rows = <<>>
    /\ agent_session = 0
    /\ loads = 0
    /\ last_load = NoResult
    /\ case_infos = <<>>
    /\ session = FALSE
    /\ max_steps_arg = 0
    /\ max_steps = InitMaxSteps(max_steps_arg)
    /\ messages = <<>>
    /\ stored = <<>>
    /\ pc = "none"
    /\ step = 0
    /\ requests = 0
    /\ nchunks = 0
    /\ full_content = <<>>
    /\ tool_calls = <<>>
    /\ idx = 0
    /\ events = <<>>
    /\ invoked = <<>>
    /\ input = [kind |-> "none"]
    /\ sent = <<>>
    /\ event_turn = <<>>
    /\ fragments = <<>>
    /\ closed_early = FALSE

NextAgents ==
    \/ AgentInit
    \/ AppendMessage
    \/ WriteState

SpecAgents == InitAgents /\ [][NextAgents]_vars

Next ==
    \/ StartRun
    \/ StartRunFails
    \/ RequestModel
    \/ RequestFails
    \/ BudgetExhausted
    \/ ReceiveChunk
    \/ StreamFails
    \/ EndTurn
    \/ EndTurnFails
    \/ AnnounceToolCall
    \/ RunTool
    \/ RunToolFails
    \/ ping

Spec == Init /\ [][Next]_vars


\* One model turn, from the open stream of the first request of an
\* invocation without new input to the announcement of its first tool call.
InitReassembly ==
    /\ session = FALSE
    /\ max_steps_arg = 0
    /\ max_steps = InitMaxSteps(max_steps_arg)
    /\ messages = default_messages
    /\ stored = <<>>
    /\ pc = "stream"
    /\ step = 0
    /\ requests = 1
    /\ nchunks = 0
    /\ full_content = <<>>
    /\ tool_calls = <<>>
    /\ idx = 0
    /\ events = <<>>
    /\ invoked = <<>>
    /\ input = [kind |-> "none"]
    /\ sent = <<messages_for_llm(default_messages)>>
    /\ event_turn = <<>>
    /\ fragments = <<>>
    /\ closed_early = FALSE
    /\ EmptyDatabase

NextReassembly ==
    \/ ReceiveFragment
    \/ EndTurn
    \/ AnnounceToolCall

SpecReassembly == InitReassembly /\ [][NextReassembly]_vars

\* Sessions are made and opened, browsers log in and out, accounts are
\* deleted; the agent a call returns is run up to its first model request.
InitSessions ==
    /\ EmptyDatabase
    /\ session = FALSE
    /\ max_steps_arg = 0
    /\ max_steps = InitMaxSteps(max_steps_arg)
    /\ messages = <<>>
    /\ stored = <<>>
    /\ pc = "none"
    /\ step = 0
    /\ requests = 0
    /\ nchunks = 0
    /\ full_content = <<>>
    /\ tool_calls = <<>>
    /\ idx = 0
    /\ events = <<>>
    /\ invoked = <<>>
    /\ input = [kind |-> "none"]
    /\ sent = <<>>
    /\ event_turn = <<>>
    /\ fragments = <<>>
    /\ closed_early = FALSE

NextSessions ==
    \/ NewChat
    \/ OpenChat
    \/ Login
    \/ Logout
    \/ DeleteUser
    \/ StartRun
    \/ RequestModel

SpecSessions == InitSessions /\ [][NextSessions]_vars

\* The browsers of the portal saving case information, logging in and out.
NextLogin ==
    \/ NewChat
    \/ case_save
    \/ Login
    \/ Logout
    \/ DeleteUser

\* No browser has a Django session or an agent; the user alice may have
\* saved case information at an earlier login.
InitLogin ==
    /\ users = Users
    /\ clients = [c \in Clients |-> [user |-> None, session_key |-> None]]
    /\ next_key = 0
    /\ chat_sessions = <<>>
    /\ rows = <<>>
    /\ agent_session = 0
    /\ loads = 0
    /\ last_load = NoResult
    /\ case_infos \in {<<>>, << [user |-> "alice", session_key |-> "",
                                 data |-> "eviction", deleted |-> FALSE] >>}
    /\ NoAgents
    /\ session = FALSE
    /\ max_steps_arg = 0
    /\ max_steps = InitMaxSteps(max_steps_arg)
    /\ messages = <<>>
    /\ stored = <<>>
    /\ pc = "none"
    /\ step = 0
    /\ requests = 0
    /\ nchunks = 0
    /\ full_content = <<>>
    /\ tool_calls = <<>>
    /\ idx = 0
    /\ events = <<>>
    /\ invoked = <<>>
    /\ input = [kind |-> "none"]
    /\ sent = <<>>
    /\ event_turn = <<>>
    /\ fragments = <<>>
    /\ closed_early = FALSE

SpecLogin == InitLogin /\ [][NextLogin]_vars

\* The invocations in which the transport may also close a stream early. A
\* closed stream that raises is StreamFails; one that stops is StreamClosed.
NextClosed ==
    \/ Next
    \/ StreamClosed

SpecClosed == Init /\ [][NextClosed]_vars


\* ------------------------------------------------------------ properties

Last(seq) == seq[Len(seq)]

IsPrefix(short, long) ==
    /\ Len(short) <= Len(long)
    /\ \A i \in 1..Len(short) : short[i] = long[i]

Terminal(e) == e.type \in {"done", "error"}

\* The generator has returned: a terminal event was its last yield.
Exhausted == pc \in {"done", "error"}

\* C1: the events of an invocation hold at most one terminal event, and it
\* is the last event; once the generator has returned there is exactly one:
\* done when nothing failed, error when something did, never both.
C1_OneTerminalEvent ==
    /\ \A i \in 1..Len(events) : Terminal(events[i]) => i = Len(events)
    /\ Exhausted <=> (events # <<>> /\ Terminal(Last(events)))
    /\ pc = "done" => Last(events) = DoneEvent
    /\ pc = "error" => Last(events).type = "error"

\* A run that ends with done after a turn with tool calls and a second turn.
C1_Witness ==
    /\ pc = "done"
    /\ requests = 2
    /\ \E i \in 1..Len(events) : events[i].type = "tool_response"

\* C2: no exception leaves stream_run; whatever fails outside a tool - the
\* caller's input included - ends the run with one error event.
C2_NeverRaises ==
    /\ pc # "raised"
    /\ (session /\ stored # messages) => (pc = "error" /\ Last(events).type = "error")


\* Creating a row raised at some point: the history holds a message the
\* session does not.
PersistFailed == session /\ stored # messages

\* The turns of a history: each assistant message with its tool calls and
\* the tool messages that follow it.
RECURSIVE TurnsOf(_)
TurnsOf(msgs) ==
    IF msgs = <<>>
    THEN <<>>
    ELSE LET before == TurnsOf(SubSeq(msgs, 1, Len(msgs) - 1))
             m == msgs[Len(msgs)]
         IN  IF m.role = "assistant"
             THEN Append(before,
                         [calls |-> IF "tool_calls" \in DOMAIN m
                                    THEN m.tool_calls ELSE <<>>,
                          tool_msgs |-> <<>>])
             ELSE IF m.role = "tool" /\ before # <<>>
             THEN [before EXCEPT ![Len(before)].tool_msgs = Append(@, m)]
             ELSE before

IsToolEvent(e) == e.type \in {"tool_call", "tool_response"}
IsToolCallEvent(e) == e.type = "tool_call"
IsToolResponseEvent(e) == e.type = "tool_response"
IsToolMessage(m) == m.role = "tool"

\* Type, id and name of each event of a sequence of tool events.
EventKeys(evs) ==
    [i \in 1..Len(evs) |-> [type |-> evs[i].type, id |-> evs[i].id,
                            name |-> evs[i].name]]

\* The tool events a turn with these calls gives when it is handled whole:
\* tool_call k then tool_response k, for k = 1..N.  A call whose id never
\* arrived is announced and answered with the empty id.
TurnKeys(calls) ==
    [i \in 1..(2 * Len(calls)) |->
        [type |-> IF i % 2 = 1 THEN "tool_call" ELSE "tool_response",
         id |-> IdOrEmpty(calls[(i + 1) \div 2].id),
         name |-> calls[(i + 1) \div 2].function.name]]

RECURSIVE ExpectedKeys(_, _)
ExpectedKeys(turns, n) ==
    IF n <= 0 THEN <<>>
    ELSE ExpectedKeys(turns, n - 1) \o TurnKeys(turns[n].calls)

\* The k-th tool message of a turn answers its k-th call, for every call.
TurnAnswered(turn) ==
    /\ Len(turn.tool_msgs) = Len(turn.calls)
    /\ \A k \in 1..Len(turn.calls) :
          /\ turn.tool_msgs[k].tool_call_id = IdOrEmpty(turn.calls[k].id)
          /\ turn.tool_msgs[k].name = turn.calls[k].function.name

\* No turn is being handled, and none was cut short by a failing row.
TurnsClosed ==
    \/ pc \in {"request", "stream", "done"}
    \/ pc = "error" /\ ~PersistFailed

\* C3: a turn with N tool calls gives N tool_call and N tool_response
\* events, alternating in list order, and N tool messages, the k-th with the
\* id and name of the k-th call.
C3_ToolCallsAnswered ==
    LET turns == TurnsOf(messages)
        keys == EventKeys(SelectSeq(events, IsToolEvent))
    IN  /\ \A j \in 1..Len(turns) :
              (j < Len(turns) \/ TurnsClosed) => TurnAnswered(turns[j])
        /\ IsPrefix(ExpectedKeys(turns, Len(turns) - 1), keys)
        /\ TurnsClosed => keys = ExpectedKeys(turns, Len(turns))

\* A turn with two tool calls was handled whole and the loop went on.
C3_Witness ==
    /\ pc = "request"
    /\ step = 1
    /\ Len(tool_calls) = 2
    /\ Len(SelectSeq(events, IsToolResponseEvent)) = 2

\* The tool calls of the message at position q (none for other messages).
CallsAt(q) ==
    IF messages[q].role = "assistant" /\ "tool_calls" \in DOMAIN messages[q]
    THEN messages[q].tool_calls
    ELSE <<>>

\* The calls of earlier assistant messages that have the id of the tool
\* message at position p (an id that never arrived counts as empty).
CallsWithIdOf(p) ==
    UNION { { <<q, k>> : k \in { i \in 1..Len(CallsAt(q)) :
                                  IdOrEmpty(CallsAt(q)[i].id)
                                     = messages[p].tool_call_id } } :
            q \in 1..(p - 1) }

\* C4 as claimed: each tool message's tool_call_id is the id of exactly one
\* tool call of an earlier assistant message.
C4_ExactlyOneCall ==
    \A p \in 1..Len(messages) :
        messages[p].role = "tool" => Cardinality(CallsWithIdOf(p)) = 1

\* The nearest assistant message before position p (0: none).
RECURSIVE AssistantBefore(_)
AssistantBefore(p) ==
    IF p <= 1 THEN 0
    ELSE IF messages[p - 1].role = "assistant" THEN p - 1
    ELSE AssistantBefore(p - 1)

\* C4 as amended: each tool message answers the call at its own position in
\* the nearest assistant message before it, with that call's id (empty when
\* none arrived) and name; so its tool_call_id is the id of at least one
\* earlier call.
C4_AnswersItsCall ==
    \A p \in 1..Len(messages) :
        messages[p].role = "tool" =>
            LET q == AssistantBefore(p)
            IN  /\ q > 0
                /\ "tool_calls" \in DOMAIN messages[q]
                /\ p - q <= Len(messages[q].tool_calls)
                /\ messages[p].tool_call_id
                      = IdOrEmpty(messages[q].tool_calls[p - q].id)
                /\ messages[p].name = messages[q].tool_calls[p - q].function.name
                /\ Cardinality(CallsWithIdOf(p)) >= 1

\* A tool message whose id is the id of two earlier calls.
C4_Witness ==
    \E p \in 1..Len(messages) :
        /\ messages[p].role = "tool"
        /\ messages[p].tool_call_id = "call_1"
        /\ Cardinality(CallsWithIdOf(p)) = 2

\* C5 as claimed: with max_steps n >= 0 given to the constructor, an
\* invocation makes at most n model requests, and stops with done after the
\* n-th turn.
C5_AtMostNRequests ==
    /\ requests <= max_steps_arg
    /\ (pc = "done" /\ \A q \in 1..Len(messages) :
                          messages[q].role = "assistant" => CallsAt(q) # <<>>)
          => requests = max_steps_arg

NumberOf(msgs, role) == Cardinality({p \in 1..Len(msgs) : msgs[p].role = role})

\* C6: a turn that ends without tool calls has its assistant message added
\* last, is followed by the one done event, and by no further request.
C6_NoToolCallsEndsRun ==
    /\ \A p \in 1..Len(messages) :
          (messages[p].role = "assistant" /\ "tool_calls" \notin DOMAIN messages[p]) =>
              /\ p = Len(messages)
              /\ pc \in {"done", "error"}
              /\ pc = "error" => PersistFailed
              /\ pc = "done" =>
                    /\ Last(events) = DoneEvent
                    /\ Len(SelectSeq(events, Terminal)) = 1
              /\ requests = NumberOf(messages, "assistant")
    /\ (pc = "done" /\ step < max_steps) =>
          /\ tool_calls = <<>>
          /\ Last(messages) = [role |-> "assistant", content |-> Join(full_content)]

\* The second turn had no tool calls and ended the run with budget left.
C6_Witness ==
    /\ pc = "done"
    /\ step = 1
    /\ step < max_steps
    /\ "tool_calls" \notin DOMAIN Last(messages)


\* The step from "execute" added a tool message and, unless its row failed,
\* yielded its tool_response and went on: to the next tool call of the turn,
\* or to the top of the loop after the last one.
ToolStepGoesOn ==
    /\ Len(messages') = Len(messages) + 1
    /\ SubSeq(messages', 1, Len(messages)) = messages
    /\ Last(messages').role = "tool"
    /\ IF ~session \/ stored' = Append(stored, Last(messages'))
       THEN /\ Len(events') = Len(events) + 1
            /\ Last(events').type = "tool_response"
            /\ IF idx < Len(tool_calls)
               THEN pc' = "tool_call" /\ idx' = idx + 1 /\ step' = step
               ELSE pc' = "request" /\ step' = step + 1
       ELSE /\ stored' = stored
            /\ pc' = "error"

\* Constructing the tool from the parsed arguments of this call raises.
ConstructionFails(call) ==
    /\ call.function.name \in tools
    /\ JsonLoads(call.function.arguments).ok
    /\ ~Construct(call.function.name, JsonLoads(call.function.arguments).value).ok

\* C7: an exception from constructing the tool or from the tool body becomes
\* a tool message 'Error: <message>'; no error event comes of it, and the
\* loop goes on with the next tool call or the next request.
C7_ToolFailureIsLocal ==
    [][ /\ (pc = "execute" /\ ConstructionFails(tool_calls[idx])) =>
              /\ invoked' = invoked
              /\ Last(messages').content = <<"Error:">> \o
                    Construct(tool_calls[idx].function.name,
                              JsonLoads(tool_calls[idx].function.arguments).value).error
              /\ "data" \notin DOMAIN Last(messages')
              /\ ToolStepGoesOn
        /\ (pc = "execute" /\ Len(invoked') > Len(invoked)
                           /\ Last(invoked').outcome = "raise") =>
              /\ Last(messages').content = <<"Error:", "tool failed">>
              /\ "data" \notin DOMAIN Last(messages')
              /\ ToolStepGoesOn
      ]_vars

\* A tool body raised, a tool whose construction failed followed in the same
\* turn, and the next request was made.
C7_Witness ==
    /\ pc = "stream"
    /\ requests = 2
    /\ invoked # <<>>
    /\ Last(invoked).outcome = "raise"
    /\ \E p \in 1..Len(messages) :
          /\ messages[p].role = "tool"
          /\ messages[p].content = <<"Error:", "tool failed">>

\* C8: a call naming no registered tool gets a tool message that says
\* 'Unknown tool', runs no tool, and does not stop the turn or the loop.
C8_UnknownToolIsLocal ==
    [][ (pc = "execute" /\ tool_calls[idx].function.name \notin tools) =>
            /\ invoked' = invoked
            /\ \E i \in 1..Len(Last(messages').content) :
                  Last(messages').content[i] = "Unknown tool:"
            /\ Last(messages').name = tool_calls[idx].function.name
            /\ ToolStepGoesOn
      ]_vars

\* An unknown tool was answered, the rest of its turn ran, and the next
\* model turn is being streamed.
C8_Witness ==
    /\ pc = "stream"
    /\ requests = 2
    /\ invoked = <<>>
    /\ \E p \in 1..Len(messages) :
          /\ messages[p].role = "tool"
          /\ messages[p].content = <<"Error:", "Unknown tool:", "Nope">>

\* C9: a call whose argument text is not JSON is announced with args {},
\* answered by a tool message beginning 'Error:', and the turn goes on.
C9_MalformedArguments ==
    [][ /\ (pc = "tool_call" /\ ~JsonLoads(tool_calls[idx].function.arguments).ok) =>
              /\ Len(events') = Len(events) + 1
              /\ events' = Append(events, Last(events'))
              /\ Last(events').type = "tool_call"
              /\ Last(events').args = EmptyDict
              /\ pc' = "execute"
        /\ (pc = "execute" /\ ~JsonLoads(tool_calls[idx].function.arguments).ok) =>
              /\ ToolStepGoesOn
              /\ Head(Last(messages').content) = "Error:"
              /\ invoked' = invoked
      ]_vars

\* A registered tool called with unfinished JSON was announced with {} and
\* answered with the parse error, and a further call of the turn followed.
C9_Witness ==
    /\ pc = "request"
    /\ Len(tool_calls) = 2
    /\ \E i \in 1..Len(events) :
          /\ events[i].type = "tool_call"
          /\ events[i].name = "WeatherTool"
          /\ events[i].args = EmptyDict
          /\ events[i + 1].type = "tool_response"
          /\ events[i + 2].type = "tool_call"
    /\ \E p \in 1..Len(messages) :
          /\ messages[p].role = "tool"
          /\ messages[p].content = <<"Error:", "Expecting value">>

\* Id and name of each call of the assistant messages of a history, in order.
RECURSIVE CallKeysOf(_)
CallKeysOf(msgs) ==
    IF msgs = <<>> THEN <<>>
    ELSE LET m == msgs[Len(msgs)]
             calls == IF m.role = "assistant" /\ "tool_calls" \in DOMAIN m
                      THEN m.tool_calls ELSE <<>>
         IN  CallKeysOf(SubSeq(msgs, 1, Len(msgs) - 1)) \o
             [k \in 1..Len(calls) |-> [type |-> "tool_call",
                                       id |-> IdOrEmpty(calls[k].id),
                                       name |-> calls[k].function.name]]

\* Id and name of each tool message of a history, in order.
ToolMessageKeysOf(msgs) ==
    LET ts == SelectSeq(msgs, IsToolMessage)
    IN  [k \in 1..Len(ts) |-> [type |-> "tool_response",
                               id |-> ts[k].tool_call_id, name |-> ts[k].name]]

\* C10: every tool_call event yielded so far announces a call of an
\* assistant message already in the history, and already a row of the
\* session when there is one; every tool_response event has its tool
\* message in both, too.
C10_StoredBeforeEvent ==
    LET called == EventKeys(SelectSeq(events, IsToolCallEvent))
        answered == EventKeys(SelectSeq(events, IsToolResponseEvent))
    IN  /\ IsPrefix(called, CallKeysOf(messages))
        /\ IsPrefix(answered, ToolMessageKeysOf(messages))
        /\ session => /\ IsPrefix(called, CallKeysOf(stored))
                      /\ IsPrefix(answered, ToolMessageKeysOf(stored))
                      /\ IsPrefix(stored, messages)

\* With a session: a tool call was announced and not yet run, after an
\* earlier one was answered.
C10_Witness ==
    /\ session
    /\ pc = "execute"
    /\ idx = 2
    /\ Last(stored).role = "tool"

\* The tool events among the first n events that were yielded under model
\* request t, in order.
RECURSIVE ToolEventsOf(_, _)
ToolEventsOf(t, n) ==
    IF n = 0
    THEN <<>>
    ELSE IF event_turn[n] = t /\ IsToolEvent(events[n])
    THEN Append(ToolEventsOf(t, n - 1), events[n])
    ELSE ToolEventsOf(t, n - 1)

\* The tool calls of the assistant message of turn t (none before the
\* message is there).
CallsOfTurn(t) ==
    LET history == TurnsOf(messages)
    IN  IF t <= Len(history) THEN history[t].calls ELSE <<>>

\* C11: the events of a turn are its content_delta events, then its
\* tool_call/tool_response pairs in tool-call order: no content_delta of a
\* turn follows a tool event of that turn, and no event of a later turn comes
\* before the last tool_response of an earlier one.
C11_TurnOrder ==
    /\ Len(event_turn) = Len(events)
    /\ \A i, j \in 1..Len(events) :
          i < j =>
             /\ event_turn[i] <= event_turn[j]
             /\ (event_turn[i] = event_turn[j] /\ IsToolEvent(events[i]))
                   => events[j].type # "content_delta"
    /\ \A t \in 1..requests :
          LET keys == EventKeys(ToolEventsOf(t, Len(events)))
              whole == TurnKeys(CallsOfTurn(t))
          IN  /\ IsPrefix(keys, whole)
              /\ (\E j \in 1..Len(events) : event_turn[j] > t) => keys = whole

\* A first turn with text and two tool calls, all answered, then a second
\* turn with text.
C11_Witness ==
    /\ requests = 2
    /\ Len(ToolEventsOf(1, Len(events))) = 4
    /\ \E i, j \in 1..Len(events) :
          /\ events[i].type = "content_delta" /\ event_turn[i] = 1
          /\ events[j].type = "content_delta" /\ event_turn[j] = 2

\* What the stream raises in StreamFails.
StreamErrors == {<<"connection reset">>, <<"list index out of range">>}

\* The texts of the content_delta events among the first n events that were
\* yielded under model request t, in order.
RECURSIVE ContentOf(_, _)
ContentOf(t, n) ==
    IF n = 0
    THEN <<>>
    ELSE IF event_turn[n] = t /\ events[n].type = "content_delta"
    THEN Append(ContentOf(t, n - 1), events[n].content)
    ELSE ContentOf(t, n - 1)

\* The stream of turn 2 has raised: the invocation ended on a stream error
\* of its second model request.
Turn2StreamFailed ==
    /\ pc = "error"
    /\ requests = 2
    /\ Last(events).type = "error"
    /\ Last(events).error \in StreamErrors

\* C12 as claimed: when the stream of turn 2 raises, turn 2 has no
\* content_delta event, the invocation has a single error event and no done
\* event.
C12_NoContentInFailedTurn ==
    Turn2StreamFailed =>
       /\ ContentOf(2, Len(events)) = <<>>
       /\ Len(SelectSeq(events, Terminal)) = 1

\* C12: when the stream of turn 2 raises, every event yielded before stays
\* as it was (those of turn 1, and one content_delta of turn 2 for each
\* piece of text received before the failure), a single error event follows
\* them as the last event of turn 2, and there is no done event.
C12_MidStreamFailure ==
    [][(pc = "stream" /\ requests = 2 /\ pc' = "error" /\ messages' = messages)
          => /\ \E e \in StreamErrors :
                   events' = Append(events, [type |-> "error", error |-> e])
             /\ event_turn' = Append(event_turn, 2)
             /\ \A i \in 1..Len(events) : ~Terminal(events[i])
             /\ ContentOf(2, Len(events)) = full_content
             /\ \A i \in 1..Len(events) :
                   event_turn[i] = 2 => events[i].type = "content_delta"
             /\ EventKeys(ToolEventsOf(1, Len(events)))
                   = TurnKeys(CallsOfTurn(1))]_vars

\* The stream of turn 2 raised after a piece of text had been yielded.
C12_Witness ==
    /\ Turn2StreamFailed
    /\ ContentOf(2, Len(events)) # <<>>
    /\ ToolEventsOf(1, Len(events)) # <<>>

\* What litellm.completion raises, when called or while streaming.
TransportErrors == StreamErrors \cup {<<"connection refused">>}

\* This step yields the error event of a transport failure.
TransportFailureStep ==
    /\ pc \in {"request", "stream"}
    /\ Len(events') = Len(events) + 1
    /\ Last(events').type = "error"
    /\ Last(events').error \in TransportErrors

\* C13: a transport failure in turn k ends the invocation without another
\* model request, adds no assistant or tool message of turn k to the history
\* or to the session, and leaves every earlier message where and as it was.
C13_TransportFailure ==
    [][/\ TransportFailureStep =>
             /\ pc' = "error"
             /\ messages' = messages
             /\ stored' = stored
             /\ LET history == TurnsOf(messages')
                IN  /\ Len(history) = requests' - 1
                    /\ \A j \in 1..Len(history) :
                          Len(history[j].tool_msgs) = Len(history[j].calls)
       /\ pc = "error" => (requests' = requests /\ sent' = sent)]_vars

\* The stream of turn 2 raised after text and a tool call had been received:
\* neither is in the history.
C13_Witness ==
    /\ Turn2StreamFailed
    /\ full_content # <<>>
    /\ tool_calls # <<>>
    /\ Last(messages).role = "tool"

\* C14: a stream closed before the turn was complete is surfaced as an error
\* event: the invocation has ended, and its last event is the error event,
\* not done.
C14_ClosedStreamIsError ==
    closed_early => (pc = "error" /\ Last(events).type = "error")

\* The fragments received in this turn for the call at index i, in order.
FragmentsOf(i) ==
    LET Addressed(tc) == tc.index = i
    IN  SelectSeq(fragments, Addressed)

\* The argument chunks of fs, concatenated in order.
RECURSIVE ArgumentsOf(_)
ArgumentsOf(fs) ==
    IF fs = <<>> THEN <<>> ELSE Head(fs).arguments \o ArgumentsOf(Tail(fs))

\* The last non-empty name of fs ("" when there is none).
RECURSIVE LastName(_)
LastName(fs) ==
    IF fs = <<>> THEN ""
    ELSE IF Last(fs).name # "" THEN Last(fs).name
    ELSE LastName(SubSeq(fs, 1, Len(fs) - 1))

\* The last non-empty id of fs (None when there is none).
RECURSIVE LastId(_)
LastId(fs) ==
    IF fs = <<>> THEN None
    ELSE IF Last(fs).id # "" THEN Last(fs).id
    ELSE LastId(SubSeq(fs, 1, Len(fs) - 1))

\* C15: for every index i addressed by a fragment of the turn, the call
\* reassembled at i has the argument chunks of the fragments with index i
\* concatenated in arrival order, their last non-empty name and their last
\* non-empty id, whatever fragments of other indexes arrived in between; its
\* tool_call event carries the object parsed from the whole text.
C15_Reassembly ==
    /\ \A k \in 1..Len(fragments) :
          LET i == fragments[k].index
              fs == FragmentsOf(i)
          IN  /\ i + 1 <= Len(tool_calls)
              /\ tool_calls[i + 1].function.arguments = ArgumentsOf(fs)
              /\ tool_calls[i + 1].function.name = LastName(fs)
              /\ tool_calls[i + 1].id = LastId(fs)
    /\ (pc = "execute" /\ JsonLoads(ArgumentsOf(FragmentsOf(idx - 1))).ok) =>
          /\ Last(events).type = "tool_call"
          /\ Last(events).args = JsonLoads(ArgumentsOf(FragmentsOf(idx - 1))).value

\* The arguments of one call arrived in three fragments, the id and the name
\* on the first; the call was announced with the whole object.
C15_Witness ==
    /\ fragments = << Delta(0, "call_1", "WeatherTool", <<LBRACE>>),
                      Delta(0, "", "", <<LocationPair>>),
                      Delta(0, "", "", <<RBRACE>>) >>
    /\ pc = "execute"
    /\ Len(SelectSeq(events, IsToolCallEvent)) = 1
    /\ Last(events) = [type |-> "tool_call", id |-> "call_1",
                       name |-> "WeatherTool",
                       args |-> [kind |-> "dict", pairs |-> {LocationPair}]]

\* No tool message of msgs has a data field.
NoToolData(msgs) ==
    \A i \in 1..Len(msgs) : msgs[i].role = "tool" => "data" \notin DOMAIN msgs[i]

\* C16: no tool message of Agent.messages_for_llm has a data field, whether
\* its source message has one or not; so none was sent to the model.
C16_NoDataForLlm ==
    /\ NoToolData(messages_for_llm(messages))
    /\ \A n \in 1..Len(sent) : NoToolData(sent[n])

\* A tool message with data is in the history, and the history was sent to
\* the model after it was added.
C16_Witness ==
    /\ Len(sent) = 2
    /\ \E p \in 1..Len(sent[2]) :
          /\ messages[p].role = "tool"
          /\ "data" \in DOMAIN messages[p]
          /\ sent[2][p].role = "tool"

\* projected is source without the data field of a tool message.
ProjectionOf(projected, source) ==
    /\ DOMAIN projected =
          DOMAIN source \ (IF source.role = "tool" THEN {"data"} ELSE {})
    /\ \A k \in DOMAIN projected : projected[k] = source[k]

\* Agent.messages_for_llm follows the history message by message.
C17_Projected ==
    LET llm == messages_for_llm(messages)
    IN  /\ Len(llm) = Len(messages)
        /\ \A i \in 1..Len(messages) : ProjectionOf(llm[i], messages[i])
        /\ \A n \in 1..Len(sent) :
              /\ Len(sent[n]) <= Len(messages)
              /\ \A i \in 1..Len(sent[n]) : ProjectionOf(sent[n][i], messages[i])

\* C17: Agent.messages_for_llm has the length and order of agent.messages,
\* each message equal to its source in every field but the data field removed
\* from tool messages (tool_calls of assistant messages included), and a
\* model request, which computes it, leaves agent.messages as it was.
C17_ProjectionKeepsTheRest ==
    /\ []C17_Projected
    /\ [][Len(sent') # Len(sent) =>
             /\ messages' = messages
             /\ Last(sent') = messages_for_llm(messages)]_vars

\* A history with an assistant message that has tool calls and a tool
\* message that has data was sent to the model: the first is sent whole,
\* the second keeps its data in the history.
C17_Witness ==
    /\ Len(sent) = 2
    /\ \E p, q \in 1..Len(sent[2]) :
          /\ "tool_calls" \in DOMAIN sent[2][p]
          /\ sent[2][p] = messages[p]
          /\ "data" \in DOMAIN messages[q]
          /\ sent[2][q] # messages[q]

\* This step is a call of from_session_id with a session id.
OpenStep == loads' = loads + 1 /\ last_load'.session_id # 0

\* The current agent was made by from_session_id from an existing session.
Replayed == last_load.session_id # 0 /\ last_load.outcome = "agent"

\* C18: loading an existing session creates and changes no row and gives an
\* agent whose history is the session's messages in creation order; started
\* without new input, the agent adds nothing to the history or to the
\* session up to its first model request, which is sent the loaded history.
C18_ReplayIsIdempotent ==
    /\ [][(OpenStep /\ last_load'.outcome = "agent") =>
             /\ Saved' = Saved
             /\ chat_sessions' = chat_sessions
             /\ agent_session' = last_load'.session_id
             /\ messages' = Saved[last_load'.session_id]
             /\ pc' = "idle"]_vars
    /\ [][(Replayed /\ pc \in {"idle", "request"} /\ requests = 0
              /\ input'.kind = "none" /\ loads' = loads) =>
             /\ messages' = messages
             /\ Saved' = Saved
             /\ messages = Saved[agent_session]
             /\ sent' # sent => sent' = <<messages_for_llm(Saved[agent_session])>>]_vars

\* A session with three messages was loaded and the agent run without new
\* input up to its first model request.
C18_Witness ==
    /\ Replayed
    /\ input.kind = "none"
    /\ pc = "stream"
    /\ Len(sent) = 1
    /\ Len(messages) = 3
    /\ messages[2].content # messages[3].content
    /\ stored = messages

\* C19: from_session_id with a session id gives an agent to the owner only:
\* for a session with a user, a request of that user; for a session without
\* one, an anonymous request whose session key is the session's.  Anyone
\* else gets PermissionError, an id of no session ValueError, and then no
\* session or message is created or changed.
C19_OnlyTheOwner ==
    [][OpenStep =>
          LET c == last_load'.client
              id == last_load'.session_id
              exists == id \in 1..Len(chat_sessions)
              owner == IF chat_sessions[id].user # None
                       THEN clients[c].user = chat_sessions[id].user
                       ELSE /\ clients[c].user = None
                            /\ clients'[c].session_key
                                  = chat_sessions[id].session_key
          IN  /\ last_load'.outcome = IF ~exists THEN "ValueError"
                                   ELSE IF owner THEN "agent"
                                   ELSE "PermissionError"
              /\ last_load'.outcome # "agent" =>
                    (chat_sessions' = chat_sessions /\ Saved' = Saved)]_vars

\* C20: when the tool body returns, the tool message has content 'Success'
\* and no data for None, content s and no data for a string s, and for a
\* ToolOutput its response as content and its data exactly when that is not
\* None.
C20_Normalized ==
    [][(pc = "execute" /\ Len(invoked') = Len(invoked) + 1
           /\ Last(invoked').outcome # "raise") =>
          LET returned == ToolResult(Last(invoked').name, Last(invoked').outcome)
              m == Last(messages')
          IN  /\ Len(messages') = Len(messages) + 1
              /\ m.role = "tool"
              /\ returned.kind = "None" =>
                    (m.content = <<"Success">> /\ "data" \notin DOMAIN m)
              /\ returned.kind = "str" =>
                    (m.content = returned.value /\ "data" \notin DOMAIN m)
              /\ returned.kind = "ToolOutput" =>
                    /\ m.content = returned.response
                    /\ "data" \in DOMAIN m <=> returned.data # None
                    /\ "data" \in DOMAIN m => m.data = returned.data]_vars

\* Tools returned None, and a ToolOutput whose data is an empty dict: the
\* tool message of the second has that data.
C20_Witness ==
    /\ Len(invoked) = 2
    /\ invoked[1].outcome = "none"
    /\ invoked[2].outcome = "output_empty"
    /\ Last(messages).role = "tool"
    /\ "data" \in DOMAIN Last(messages)
    /\ Last(messages).data = "{}"

\* The tool message begins with 'Error:': its execution failed.
IsErrorMessage(m) == Len(m.content) >= 1 /\ m.content[1] = "Error:"

\* C21: every tool_response event has type, id and name, the id and name
\* being those of the tool message of the same execution, has data exactly
\* when that message has (the same), and has nothing else - the text for the
\* model in particular; after a failed execution it has no data.
C21_ThinToolResponse ==
    LET responses == SelectSeq(events, IsToolResponseEvent)
        tool_msgs == SelectSeq(messages, IsToolMessage)
    IN  /\ Len(responses) <= Len(tool_msgs)
        /\ \A k \in 1..Len(responses) :
              LET e == responses[k]
                  m == tool_msgs[k]
              IN  /\ DOMAIN e = {"type", "id", "name"}
                                   \cup (DOMAIN m \cap {"data"})
                  /\ e.id = m.tool_call_id
                  /\ e.name = m.name
                  /\ "data" \in DOMAIN m => e.data = m.data
                  /\ IsErrorMessage(m) => "data" \notin DOMAIN e

\* One execution failed and one returned data: the first tool_response has
\* no data, the second has it.
C21_Witness ==
    LET responses == SelectSeq(events, IsToolResponseEvent)
        tool_msgs == SelectSeq(messages, IsToolMessage)
    IN  /\ Len(responses) = 2
        /\ IsErrorMessage(tool_msgs[1])
        /\ "data" \in DOMAIN responses[2]
        /\ responses[2].data = "{temp_f: 72}"

\* ------------------------------------------------- C22: data handed to a user

\* A step in which browser c logs in as user u.
LoginStep(c, u) ==
    /\ clients[c].user = None
    /\ clients'[c].user = u
    /\ u # None

\* What a login with the recorded key does to ChatSession i.
ChatSessionMigrated(i, recorded, u) ==
    IF chat_sessions[i].session_key = recorded /\ chat_sessions[i].user = None
    THEN chat_sessions'[i] = [user |-> u, session_key |-> ""]
    ELSE chat_sessions'[i] = chat_sessions[i]

\* What a login with the recorded key does to CaseInfo i.
CaseInfoMigrated(i, recorded, u) ==
    IF /\ Live(i)
       /\ case_infos[i].session_key = recorded
       /\ case_infos[i].user = None
    THEN IF \E j \in 1..Len(case_infos) : Live(j) /\ case_infos[j].user = u
         THEN case_infos'[i].deleted
         ELSE case_infos'[i] = [user |-> u, session_key |-> "",
                                data |-> case_infos[i].data,
                                deleted |-> FALSE]
    ELSE case_infos'[i] = case_infos[i]

C23_AppendOnly ==
    [][/\ Len(messages') >= Len(messages)
       /\ \A i \in 1..Len(messages) : messages'[i] = messages[i]]_vars

\* An invocation has added the caller's input, an assistant message with a
\* tool call and the tool message that answers it.
C23_Witness ==
    /\ pc = "done"
    /\ Len(messages) >= Len(default_messages) + 3
    /\ \E i \in 2..Len(messages) :
          /\ IsToolMessage(messages[i])
          /\ messages[i - 1].role = "assistant"

\* ----------------------------------------- C24: what a model request submits

\* The step is a model request (one that is answered or one that raises).
RequestStep == Len(sent') = Len(sent) + 1

\* The step executes a tool call and adds its tool message.
ExecuteStep == pc = "execute" /\ Len(messages') > Len(messages)

\* The tool messages at the end of the history, after its last assistant
\* message.
ToolMessagesOfTurn == Len(messages) - AssistantBefore(Len(messages) + 1)

\* The caller's input as the last messages of the first request.
FirstRequestHasInput ==
    LET first == sent[1]
        n == Len(first)
    IN  CASE input.kind = "none" -> TRUE
          [] input.kind = "str" ->
                /\ n >= 1
                /\ first[n] = [role |-> "user", content |-> input.text]
          [] input.kind = "list" ->
                /\ n >= Len(input.list)
                /\ \A i \in 1..Len(input.list) :
                      first[n - Len(input.list) + i] = input.list[i]

\* Request k > 1 holds what request k - 1 held, then the assistant message of
\* turn k - 1, then one tool message for each of its tool calls, in order.
LaterRequestHasToolMessages(k) ==
    LET before == Len(sent[k - 1])
        now == sent[k]
    IN  /\ Len(now) > before
        /\ SubSeq(now, 1, before) = sent[k - 1]
        /\ now[before + 1].role = "assistant"
        /\ "tool_calls" \in DOMAIN now[before + 1]
        /\ LET calls == now[before + 1].tool_calls
           IN  /\ calls # <<>>
               /\ Len(now) = before + 1 + Len(calls)
               /\ \A i \in 1..Len(calls) :
                     /\ now[before + 1 + i].role = "tool"
                     /\ now[before + 1 + i].name = calls[i].function.name
                     /\ now[before + 1 + i].tool_call_id
                           = (IF calls[i].id = None THEN "" ELSE calls[i].id)

\* C24: every model request submits the projection of the whole history as
\* it is then; the first holds the caller's input (a string as one user
\* message, a list message by message), each later one the tool messages of
\* every tool call of the turn before; a tool execution starts when the
\* calls before it in the turn are answered, and makes no request, and a
\* request executes no tool.
C24_RequestsSeeTheHistory ==
    /\ [](/\ sent # <<>> => FirstRequestHasInput
          /\ \A k \in 2..Len(sent) : LaterRequestHasToolMessages(k))
    /\ [][/\ RequestStep =>
                /\ Len(Last(sent')) = Len(messages)
                /\ \A i \in 1..Len(messages) :
                      ProjectionOf(Last(sent')[i], messages[i])
                /\ messages' = messages
                /\ invoked' = invoked
          /\ ExecuteStep =>
                /\ ToolMessagesOfTurn = idx - 1
                /\ Len(messages') = Len(messages) + 1
                /\ sent' = sent]_vars

\* The caller passed a list, the first turn asked for two tools, and the
\* second request was made: it holds both tool messages.
C24_Witness ==
    /\ input.kind = "list"
    /\ Len(sent) = 2
    /\ Len(sent[2]) = Len(sent[1]) + 3
    /\ sent[2][Len(sent[2])].role = "tool"
    /\ sent[2][Len(sent[2]) - 1].role = "tool"

\* ------------------------------------------ C25: the assistant message

\* The step ends a model turn: the stream is over and a message is added.
EndOfTurnStep == pc = "stream" /\ Len(messages') > Len(messages)

\* C25: the end of a model turn adds one assistant message; its content is
\* the contents of the turn's content_delta events put together in order
\* (nothing when there were none), and it has a tool_calls field exactly when
\* a tool-call fragment arrived in the turn; no other step adds an assistant
\* message.
C25_OneAssistantMessage ==
    [][/\ EndOfTurnStep =>
             /\ Len(messages') = Len(messages) + 1
             /\ Last(messages').role = "assistant"
             /\ Last(messages').content = Join(ContentOf(requests, Len(events)))
             /\ ("tool_calls" \in DOMAIN Last(messages')) <=> (fragments # <<>>)
       /\ (pc = "stream" /\ pc' \in {"tool_call", "done"}) => EndOfTurnStep
       /\ NumberOf(messages', "assistant") # NumberOf(messages, "assistant")
             => EndOfTurnStep]_vars

\* A turn of two content chunks and no tool-call fragment has ended: its
\* assistant message holds both texts and has no tool_calls field.
C25_Witness ==
    /\ pc = "done"
    /\ Last(messages) = [role |-> "assistant", content |-> <<"Hello", "Hello">>]
    /\ Len(SelectSeq(events, LAMBDA e : e.type = "content_delta")) = 2

\* ------------------------------------------- C26: args of a tool_call event

\* C26: the args of every tool_call event is an object (the one parsed from
\* the argument text, or the empty one when the text does not parse), never
\* a list or another JSON value.
C26_ArgsIsAnObject ==
    \A i \in 1..Len(events) :
        IsToolCallEvent(events[i]) =>
            /\ events[i].args.kind = "dict"
            /\ \E p \in 1..Len(messages) : \E k \in 1..Len(CallsAt(p)) :
                  LET parsed == JsonLoads(CallsAt(p)[k].function.arguments)
                  IN  events[i].args =
                         (IF parsed.ok THEN parsed.value ELSE EmptyDict)

\* ------------------------------------------------ C27: independent agents

\* What agent a holds: its messages, its state and its tools.
View(a) ==
    [messages |-> lists[agents[a].messages],
     state |-> dicts[agents[a].state],
     tools |-> agents[a].tools]

\* C27: an operation on one agent (constructing it, appending a message,
\* writing its state) changes the messages, state and tools of no other
\* agent, nor the class-level default_messages, nor the list the caller
\* passed to the constructor.
C27_Independent ==
    [][/\ lists'[DefaultAddress] = default_messages
       /\ lists'[CallerAddress] = CallerMessages
       /\ \A a, b \in 1..Len(agents) :
             (a # b /\ View(a)' # View(a)) => View(b)' = View(b)]_vars

\* Two agents were made from the caller's list; the first has appended a
\* message and written its state, the second holds what it was made with.
C27_Witness ==
    /\ Len(agents) = 2
    /\ lists[agents[1].messages] = Append(CallerMessages, NewMessage)
    /\ lists[agents[2].messages] = CallerMessages
    /\ dicts[agents[1].state] = {StateKey}
    /\ dicts[agents[2].state] = {}

\* ------------------------------------------- C28: the rows and the history

\* C28: for an agent with a session that it alone writes, the session's rows
\* in creation order are agent.messages right after construction and
\* whenever stream_run yields an event.
C28_RowsAreTheHistory ==
    /\ [](session /\ pc = "idle" => stored = messages)
    /\ [][(session /\ Len(events') > Len(events)) => stored' = messages']_vars

\* --------------------------------------- C29: a call without argument text

\* The tool call at hand has no argument text.
NoArgumentText ==
    /\ pc \in {"tool_call", "execute"}
    /\ tool_calls[idx].function.arguments = <<>>

\* C29: a tool call whose argument text is empty is announced with the empty
\* object as args, and executing it runs no tool (so that nothing is written
\* to agent.state): its tool message starts with "Error:", whether the tool
\* is unknown, needs parameters or needs none.
C29_NoArgumentsNoTool ==
    [][NoArgumentText =>
          /\ pc = "tool_call" =>
                /\ Len(events') = Len(events) + 1
                /\ Last(events').type = "tool_call"
                /\ Last(events').args = [kind |-> "dict", pairs |-> {}]
          /\ pc = "execute" =>
                /\ invoked' = invoked
                /\ heapVars' = heapVars
                /\ Len(messages') = Len(messages) + 1
                /\ Last(messages').role = "tool"
                /\ Last(messages').name = tool_calls[idx].function.name
                /\ Head(Last(messages').content) = "Error:"
                /\ "data" \notin DOMAIN Last(messages')]_vars

\* CourtInfo, a registered tool without required parameters, was called
\* without argument text: the call was announced and answered, no tool ran.
C29_Witness ==
    /\ invoked = <<>>
    /\ \E i \in 1..Len(events) :
          events[i] = [type |-> "tool_call", id |-> "call_3",
                       name |-> "CourtInfo",
                       args |-> [kind |-> "dict", pairs |-> {}]]
    /\ \E p \in 1..Len(messages) :
          messages[p] = [role |-> "tool", tool_call_id |-> "call_3",
                         name |-> "CourtInfo",
                         content |-> <<"Error:", "Expecting value">>]

\* ------------------------------------------------ C30: positions left out

\* The highest index among the tool-call fragments of the turn.
HighestIndex ==
    CHOOSE n \in {fragments[i].index : i \in 1..Len(fragments)} :
        \A i \in 1..Len(fragments) : fragments[i].index <= n

\* No fragment of the turn addressed position k of tool_calls.
LeftOut(k) ==
    /\ k \in 1..Len(tool_calls)
    /\ \A i \in 1..Len(fragments) : fragments[i].index # k - 1

\* C30: the tool calls of a turn are one more than the highest fragment
\* index received; a position no fragment addressed is a call without id,
\* with the empty name and no argument text, in the assistant message too;
\* it is announced with id "" and name "", and executed: no tool runs, and
\* its tool message says "Unknown tool".
C30_PlaceholdersAreCalls ==
    /\ [](/\ Len(tool_calls) = (IF fragments = <<>> THEN 0 ELSE HighestIndex + 1)
          /\ \A k \in 1..Len(tool_calls) :
                LeftOut(k) =>
                   tool_calls[k] = [id |-> "<None>", type |-> "function",
                                    function |-> [name |-> "",
                                                  arguments |-> <<>>]])
    /\ [][/\ (EndOfTurnStep /\ tool_calls # <<>>) =>
                Last(messages').tool_calls = tool_calls
          /\ (pc = "tool_call" /\ LeftOut(idx)) =>
                /\ Len(events') = Len(events) + 1
                /\ Last(events') = [type |-> "tool_call", id |-> "", name |-> "",
                                    args |-> [kind |-> "dict", pairs |-> {}]]
          /\ (pc = "execute" /\ LeftOut(idx)) =>
                /\ Len(messages') = Len(messages) + 1
                /\ Last(messages') =
                      [role |-> "tool", tool_call_id |-> "", name |-> "",
                       content |-> <<"Error:", "Unknown tool:", "">>]
                /\ invoked' = invoked]_vars

\* Both fragments of a turn had index 1: the turn has two calls, the first
\* a placeholder that was announced and answered with "Unknown tool".
C30_Witness ==
    /\ Len(fragments) = 2
    /\ \A i \in 1..Len(fragments) : fragments[i].index = 1
    /\ Len(tool_calls) = 2
    /\ idx = 2
    /\ \E p \in 1..Len(messages) :
          messages[p] = [role |-> "tool", tool_call_id |-> "", name |-> "",
                         content |-> <<"Error:", "Unknown tool:", "">>]
    /\ \E i \in 1..Len(events) :
          events[i] = [type |-> "tool_call", id |-> "", name |-> "",
                       args |-> [kind |-> "dict", pairs |-> {}]]

=============================================================================
